---- MODULE Spec2Model ----
(***************************************************************************)
(* A model of safe-fetch (src/src/index.js, lines 43-130): createSafeFetch *)
(* wraps a fetch-like transport as                                         *)
(*     (url, init) => fetch(url, init).catch(error => { ... })             *)
(* and the catch handler turns the rejection value into a Response with    *)
(* status ERROR_STATUS, the error message as statusText and a JSON body.   *)
(*                                                                         *)
(* JavaScript values are records [t, s, own]: t is the type tag, s the     *)
(* UTF-16 code units of a string (or the message a DOMException's          *)
(* prototype getter returns), own the own properties of an object.         *)
(***************************************************************************)
EXTENDS Naturals, Integers, Sequences, FiniteSets, TLC

\* ------------------------------------------------------------------ bounds

\* Longest string (in code units) a failure carries as thrown value or message.
MaxStrLen == 1

\* Calls through one wrapper.
MaxCalls == 2

\* ------------------------------------------------------- program constants

ERROR_STATUS == 10001

\* The in-range status the Response is constructed with before the override.
PlaceholderStatus == 599

\* ------------------------------------------------------------ value domain

EmptyRec == [n \in {} |-> 0]

V(tag) == [t |-> tag, s |-> << >>, own |-> EmptyRec]

Str(chars) == [t |-> "string", s |-> chars, own |-> EmptyRec]

Undefined == V("undefined")
Null == V("null")
\* The number 42.
Num == V("number")
\* The BigInt 10n.
BigIntV == V("bigint")
Fn == V("function")
Sym == V("symbol")
\* A nested acyclic plain object holding JSON data.
Nested == V("nested")
\* A reference to the thrown object itself (error.self = error).
SelfRef == V("self")
\* An accessor property whose getter throws.
Hostile == V("getter")
\* No own property of that name.
Absent == V("absent")

\* Exceptions the language and the platform raise inside the handler.
TypeErrorV == V("TypeError")
RangeErrorV == V("RangeError")
GetterThrown == V("GetterThrown")
NoValue == V("none")

\* Code units: "a", line feed, and the euro sign (above U+00FF).
Chars == {97, 10, 8364}

Strs == UNION {[1..k -> Chars] : k \in 0..MaxStrLen}

\* Strings a custom property holds: their content plays no role in the handler.
PropStrs == UNION {[1..k -> {97}] : k \in 0..MaxStrLen}

\* "Unknown error"
UnknownError == <<85, 110, 107, 110, 111, 119, 110, 32, 101, 114, 114, 111, 114>>

\* The text the engine puts in an Error's stack.
StackText == <<97, 116>>

\* "OK"
OkText == <<79, 75>>

\* What the message property of a thrown object may hold.
MsgVals == {Str(s) : s \in Strs} \cup {Num, Undefined, Sym, BigIntV, SelfRef, Hostile}

\* What a custom property of a thrown object may hold.
CustomVals ==
    {Str(s) : s \in PropStrs}
        \cup {Num, Undefined, Null, Fn, Sym, BigIntV, Nested, SelfRef, Hostile}

\* Object.getOwnPropertyNames lists the names in creation order: an Error's
\* stack and message come from the constructor, the custom ones follow.
NameOrder == <<"stack", "message", "code", "statusCode">>

\* The own properties of an object built with a message, and two custom
\* properties (Absent: not set). An Error has its own stack; its message is
\* own only when the constructor got one (or it was assigned).
MkOwn(cls, m, c1, c2) ==
    LET names == (IF cls = "Error" THEN {"stack"} ELSE {})
                     \cup (IF m = Absent THEN {} ELSE {"message"})
                     \cup (IF c1 = Absent THEN {} ELSE {"code"})
                     \cup (IF c2 = Absent THEN {} ELSE {"statusCode"})
    IN  [n \in names |->
            CASE n = "stack" -> Str(StackText)
              [] n = "message" -> m
              [] n = "code" -> c1
              [] OTHER -> c2]

\* Error objects (new Error(...), TypeError, an Error named AbortError) and
\* plain objects.
Objects ==
    {[t |-> cls, s |-> << >>, own |-> MkOwn(cls, m, c1, c2)] :
        cls \in {"Error", "Plain"},
        m \in MsgVals \cup {Absent},
        c1 \in CustomVals \cup {Absent},
        c2 \in CustomVals \cup {Absent}}

\* The DOMException an aborted signal rejects with: message is an accessor on
\* the prototype; whether stack is an own property depends on the engine.
DOMExceptions ==
    {[t |-> "DOMException", s |-> s, own |-> o] :
        s \in Strs \ {<< >>},
        o \in {EmptyRec, [n \in {"stack"} |-> Str(StackText)]}}

\* Everything a transport may reject with (or throw).
Failures ==
    {Str(s) : s \in Strs} \cup {Num, Null, Undefined} \cup Objects \cup DOMExceptions

\* What a transport may throw before it returns a promise.
SyncFailures == {Str(<<97>>), [t |-> "Error", s |-> << >>, own |-> MkOwn("Error", Str(<<97>>), Absent, Absent)]}

Urls == {"https://example.com", "https://example.com/api"}

\* init: left out, or an options object (possibly with a signal).
Inits == {"undefined", "init1"}

\* The (url, init) pairs of the calls made one at a time.
Requests ==
    {[url |-> "https://example.com", init |-> "undefined"],
     [url |-> "https://example.com/api", init |-> "init1"]}

\* ---------------------------------------------------------------- Response

NoBody == [kind |-> "none", members |-> EmptyRec]

TextBody == [kind |-> "text", members |-> EmptyRec]

\* A Response object's identity: who constructed it, and its number there.
Ident(by, n) == [by |-> by, n |-> n]

NoResponse ==
    [id |-> Ident("none", 0), status |-> 0, statusText |-> << >>,
     contentType |-> "", body |-> NoBody]

\* The Response objects the transport resolves with: real HTTP results.
TransportStatuses == {200, 404, 599}

TransportResponses ==
    {[id |-> Ident("transport", i), status |-> st, statusText |-> OkText,
      contentType |-> "text/plain", body |-> TextBody] :
        i \in {1, 2}, st \in TransportStatuses}

\* ----------------------------------------------------- language semantics

\* A completion: a value, or a thrown exception.
Normal(v) == [thrown |-> FALSE, v |-> v]
Throw(v) == [thrown |-> TRUE, v |-> v]

IsObject(v) == v.t \in {"Error", "Plain", "DOMException"}

\* error[name]: reading a property of null or undefined is a TypeError, a
\* hostile getter throws, a missing own property is looked up on the prototype
\* (Error.prototype.message is "", DOMException.prototype.message a getter).
Get(error, name) ==
    IF error.t \in {"null", "undefined"} THEN Throw(TypeErrorV)
    ELSE IF name \in DOMAIN error.own
    THEN IF error.own[name] = Hostile THEN Throw(GetterThrown)
         ELSE Normal(error.own[name])
    ELSE IF name = "message" /\ error.t = "Error" THEN Normal(Str(<< >>))
    ELSE IF name = "message" /\ error.t = "DOMException" THEN Normal(Str(error.s))
    ELSE Normal(Undefined)

\* ToBoolean, as the || operator applies it.
Truthy(v) ==
    CASE v.t = "string" -> v.s # << >>
      [] v.t \in {"undefined", "null"} -> FALSE
      [] OTHER -> TRUE

\* "[object Object]"
ObjectText == <<91, 111, 98, 106, 101, 99, 116, 32, 79, 98, 106, 101, 99, 116, 93>>

\* ToString of a value that is no symbol: 42 is "42", 10n is "10".
JSToString(v) ==
    CASE v.t = "string" -> v.s
      [] v.t = "number" -> <<52, 50>>
      [] v.t = "bigint" -> <<49, 48>>
      [] OTHER -> ObjectText

\* A dictionary member given as undefined takes its default: statusText "".
StatusTextMember(v) == IF v.t = "undefined" THEN << >> ELSE JSToString(v)

\* getOwnPropertyNames with a slip, Object.keys(error): only the enumerable
\* names, which leaves out the stack and the message an Error is built with.
ObjectKeys(error) ==
    IF error.t \in {"null", "undefined"} THEN Throw(TypeErrorV)
    ELSE Normal(SelectSeq(NameOrder,
                          LAMBDA n : /\ n \in DOMAIN error.own
                                     /\ ~(error.t \in {"Error", "DOMException"}
                                            /\ n \in {"stack", "message"})))

\* Object.getOwnPropertyNames(error): a TypeError for null and undefined, the
\* own names (enumerable or not) of an object, none for a number.
getOwnPropertyNames(error) ==
    IF error.t \in {"null", "undefined"} THEN Throw(TypeErrorV)
    ELSE Normal(SelectSeq(NameOrder, LAMBDA n : n \in DOMAIN error.own))

\* One JSON value of the text JSON.stringify writes.
ToJSON(v) ==
    CASE v.t = "string" -> [j |-> "string", s |-> v.s]
      [] v.t = "number" -> [j |-> "number", s |-> <<52, 50>>]
      [] v.t = "null" -> [j |-> "null", s |-> << >>]
      [] OTHER -> [j |-> "object", s |-> << >>]

\* JSON.stringify of a flat record: a TypeError for a BigInt and for a value
\* that leads back to itself; a member whose value is undefined, a function
\* or a symbol is left out of the text.
JSONstringify(record) ==
    IF \E n \in DOMAIN record : record[n].t \in {"bigint", "self"}
    THEN Throw(TypeErrorV)
    ELSE Normal([kind |-> "json",
                 members |->
                    [n \in {m \in DOMAIN record :
                                record[m].t \notin {"undefined", "function", "symbol"}}
                        |-> ToJSON(record[n])]])

\* JSON.parse of a JSON text (response.json()): the object it denotes.
FromJSON(jv) ==
    CASE jv.j = "string" -> Str(jv.s)
      [] jv.j = "number" -> Num
      [] jv.j = "null" -> Null
      [] OTHER -> Nested

JSONparse(text) == [n \in DOMAIN text.members |-> FromJSON(text.members[n])]

\* WebIDL ByteString: no code unit above 255.
IsByteString(chars) == \A i \in 1..Len(chars) : chars[i] <= 255

\* reason-phrase = *( HTAB / SP / VCHAR / obs-text )
IsReasonPhrase(chars) ==
    \A i \in 1..Len(chars) :
        chars[i] = 9 \/ (chars[i] >= 32 /\ chars[i] <= 126) \/ chars[i] >= 128

\* new Response(body, {status, statusText, headers}): a RangeError for a status
\* outside 200..599, a TypeError when statusText cannot be converted to a
\* ByteString (a symbol, a code unit above 255) or is no reason-phrase.
NewResponse(id, bodyText, status, statusText, contentType) ==
    IF statusText.t = "symbol" THEN Throw(TypeErrorV)
    ELSE IF ~IsByteString(StatusTextMember(statusText)) THEN Throw(TypeErrorV)
    ELSE IF status < 200 \/ status > 599 THEN Throw(RangeErrorV)
    ELSE IF ~IsReasonPhrase(StatusTextMember(statusText)) THEN Throw(TypeErrorV)
    ELSE Normal([id |-> id, status |-> status,
                 statusText |-> StatusTextMember(statusText),
                 contentType |-> contentType, body |-> bodyText])

\* defineStatus with a slip: the placeholder status is left in place.
defineStatusSkipped(resp, value) == resp

\* Object.defineProperty(response, "status", {value, ...})
defineStatus(response, value) == [response EXCEPT !.status = value]

\* ------------------------------------------------------------- the handler

\* errorMessage with a slip: no "Unknown error" for a missing or empty message.
errorMessageNoDefault(error) ==
    IF error.t = "string" THEN Normal(error) ELSE Get(error, "message")

\* const errorMessage = typeof error === "string" ? error
\*                                               : error.message || "Unknown error";
errorMessage(error) ==
    IF error.t = "string" THEN Normal(error)
    ELSE LET m == Get(error, "message")
         IN  IF m.thrown THEN m
             ELSE IF Truthy(m.v) THEN m
             ELSE Normal(Str(UnknownError))

\* LoopStep with a slip: the value is stored as text (String(value)), which
\* turns a number into its digits and a nested object into "[object Object]".
LoopStepAsText(error, name, acc) ==
    LET value == Get(error, name)
    IN  IF value.thrown THEN acc
        ELSE IF value.v.t # "function" /\ value.v.t # "symbol"
        THEN (name :> Str(JSToString(value.v))) @@ acc
        ELSE acc

\* One round of the for loop: the value is read inside try/catch, and kept
\* unless it is a function or a symbol.
LoopStep(error, name, acc) ==
    LET value == Get(error, name)
    IN  IF value.thrown THEN acc
        ELSE IF value.v.t # "function" /\ value.v.t # "symbol"
        THEN (name :> value.v) @@ acc
        ELSE acc

\* Loop with a slip: a skipped property ends the loop (break, or one try/catch
\* around the whole loop), so the properties after it are lost.
RECURSIVE LoopBreak(_, _, _)
LoopBreak(error, names, acc) ==
    IF names = << >> THEN acc
    ELSE IF LoopStep(error, Head(names), acc) = acc THEN acc
    ELSE LoopBreak(error, Tail(names), LoopStep(error, Head(names), acc))

RECURSIVE Loop(_, _, _)
Loop(error, names, acc) ==
    IF names = << >> THEN acc
    ELSE Loop(error, Tail(names), LoopStep(error, Head(names), acc))

\* errorObject with a slip: no branch for a string, whose own properties (none
\* that hold JSON data of the message) are collected like an object's.
errorObjectNoStringBranch(error) ==
    LET propertyNames == getOwnPropertyNames(error)
    IN  IF propertyNames.thrown THEN propertyNames
        ELSE Normal(Loop(error, propertyNames.v, EmptyRec))

\* The record the handler collects: {message: error} for a string, else the
\* own properties of the failure.
errorObject(error) ==
    IF error.t = "string" THEN Normal("message" :> error)
    ELSE LET propertyNames == getOwnPropertyNames(error)
         IN  IF propertyNames.thrown THEN propertyNames
             ELSE Normal(Loop(error, propertyNames.v, EmptyRec))

\* try { body = JSON.stringify(errorObject) }
\* catch { body = JSON.stringify({ message: errorMessage }) }
body(record, message) ==
    LET full == JSONstringify(record)
    IN  IF ~full.thrown THEN full ELSE JSONstringify("message" :> message)

\* The Response the handler builds from the body and the message.
response(id, bodyText, message) ==
    LET built == NewResponse(id, bodyText, PlaceholderStatus, message, "application/json")
    IN  IF built.thrown THEN built
        ELSE Normal(defineStatus(built.v, ERROR_STATUS))

\* The catch handler, run on the rejection value: the Response it returns, or
\* the exception that leaves it.
handler(error, id) ==
    LET message == errorMessage(error)
    IN  IF message.thrown THEN message
        ELSE LET record == errorObject(error)
             IN  IF record.thrown THEN record
                 ELSE LET text == body(record.v, message.v)
                      IN  IF text.thrown THEN text
                          ELSE response(id, text.v, message.v)

\* -------------------------------------------------------------------- state

Calls == 1..MaxCalls

VARIABLES
    pc,         \* [Calls -> "idle" | "pending" | "done"]: the wrapped call
    request,    \* [Calls -> the (url, init) the caller passed]
    delivered,  \* [Calls -> the (url, init) of each transport invocation]
    promise,    \* [Calls -> the promise the transport returned]
    outcome,    \* [Calls -> how the wrapped call ended]
    allocated   \* Response objects the handler has constructed

vars == <<pc, request, delivered, promise, outcome, allocated>>

NoRequest == [url |-> "", init |-> ""]

NoPromise == [state |-> "none", response |-> NoResponse, reason |-> NoValue]

NoOutcome == [kind |-> "none", response |-> NoResponse, reason |-> NoValue]

Init ==
    /\ pc = [c \in Calls |-> "idle"]
    /\ request = [c \in Calls |-> NoRequest]
    /\ delivered = [c \in Calls |-> << >>]
    /\ promise = [c \in Calls |-> NoPromise]
    /\ outcome = [c \in Calls |-> NoOutcome]
    /\ allocated = 0

\* safe(url, init): fetch(url, init) is invoked and returns a promise, on
\* which .catch(handler) is registered; the derived promise is returned.
Call(c, url, init) ==
    /\ pc[c] = "idle"
    /\ pc' = [pc EXCEPT ![c] = "pending"]
    /\ request' = [request EXCEPT ![c] = [url |-> url, init |-> init]]
    /\ delivered' = [delivered EXCEPT ![c] = Append(@, [url |-> url, init |-> init])]
    /\ promise' = [promise EXCEPT ![c] = [NoPromise EXCEPT !.state = "pending"]]
    /\ UNCHANGED <<outcome, allocated>>

\* safe(url, init) with a transport that throws before returning a promise:
\* no .catch is reached, the exception leaves the arrow function.
CallThrows(c, url, init, error) ==
    /\ pc[c] = "idle"
    /\ pc' = [pc EXCEPT ![c] = "done"]
    /\ request' = [request EXCEPT ![c] = [url |-> url, init |-> init]]
    /\ delivered' = [delivered EXCEPT ![c] = Append(@, [url |-> url, init |-> init])]
    /\ outcome' = [outcome EXCEPT ![c] = [NoOutcome EXCEPT !.kind = "thrown", !.reason = error]]
    /\ UNCHANGED <<promise, allocated>>

\* The transport's promise is fulfilled with a Response.
TransportFulfil(c, r) ==
    /\ pc[c] = "pending"
    /\ promise[c].state = "pending"
    /\ promise' = [promise EXCEPT ![c] = [NoPromise EXCEPT !.state = "fulfilled", !.response = r]]
    /\ UNCHANGED <<pc, request, delivered, outcome, allocated>>

\* The transport's promise is rejected.
TransportReject(c, error) ==
    /\ pc[c] = "pending"
    /\ promise[c].state = "pending"
    /\ promise' = [promise EXCEPT ![c] = [NoPromise EXCEPT !.state = "rejected", !.reason = error]]
    /\ UNCHANGED <<pc, request, delivered, outcome, allocated>>

\* PassThrough with a slip: the handler's Response construction also wraps a
\* successful result, so the caller gets a copy, not the transport's object.
PassThroughCopy(c) ==
    /\ pc[c] = "pending"
    /\ promise[c].state = "fulfilled"
    /\ pc' = [pc EXCEPT ![c] = "done"]
    /\ outcome' = [outcome EXCEPT ![c] =
            [NoOutcome EXCEPT !.kind = "fulfilled",
                              !.response = [promise[c].response EXCEPT
                                                !.id = Ident("handler", allocated + 1)]]]
    /\ allocated' = allocated + 1
    /\ UNCHANGED <<request, delivered, promise>>

\* The reaction .catch registered, on a fulfilled promise: the derived promise
\* is fulfilled with the same value, the handler does not run.
PassThrough(c) ==
    /\ pc[c] = "pending"
    /\ promise[c].state = "fulfilled"
    /\ pc' = [pc EXCEPT ![c] = "done"]
    /\ outcome' = [outcome EXCEPT ![c] =
            [NoOutcome EXCEPT !.kind = "fulfilled", !.response = promise[c].response]]
    /\ UNCHANGED <<request, delivered, promise, allocated>>

\* The settlement of the derived promise once the handler has run.
Settled(result) ==
    IF result.thrown
    THEN [NoOutcome EXCEPT !.kind = "rejected", !.reason = result.v]
    ELSE [NoOutcome EXCEPT !.kind = "fulfilled", !.response = result.v]

\* CatchReaction with a slip: after the failure the transport is invoked once
\* more with the same arguments (a retry) before the Response is built.
CatchReactionRetries(c) ==
    /\ pc[c] = "pending"
    /\ promise[c].state = "rejected"
    /\ LET result == handler(promise[c].reason, Ident("handler", allocated + 1))
       IN  /\ outcome' = [outcome EXCEPT ![c] = Settled(result)]
           /\ allocated' = IF result.thrown THEN allocated ELSE allocated + 1
    /\ pc' = [pc EXCEPT ![c] = "done"]
    /\ delivered' = [delivered EXCEPT ![c] = Append(@, request[c])]
    /\ UNCHANGED <<request, promise>>

\* CatchReaction with a slip: the Response is built once and kept in a variable
\* of the module, so every failing call returns the same object.
CatchReactionShared(c) ==
    /\ pc[c] = "pending"
    /\ promise[c].state = "rejected"
    /\ LET result == handler(promise[c].reason, Ident("handler", 1))
       IN  /\ outcome' = [outcome EXCEPT ![c] = Settled(result)]
           /\ allocated' = IF result.thrown THEN allocated ELSE 1
    /\ pc' = [pc EXCEPT ![c] = "done"]
    /\ UNCHANGED <<request, delivered, promise>>

\* The reaction .catch registered, on a rejected promise: the handler runs on
\* the rejection value; the derived promise is fulfilled with what it returns,
\* or rejected with what it throws.
CatchReaction(c) ==
    /\ pc[c] = "pending"
    /\ promise[c].state = "rejected"
    /\ LET result == handler(promise[c].reason, Ident("handler", allocated + 1))
       IN  /\ outcome' = [outcome EXCEPT ![c] = Settled(result)]
           /\ allocated' = IF result.thrown THEN allocated ELSE allocated + 1
    /\ pc' = [pc EXCEPT ![c] = "done"]
    /\ UNCHANGED <<request, delivered, promise>>

\* One call through the wrapper, over every failure value of the domain.
Next ==
    \E c \in {1} :
        \/ \E rq \in Requests : Call(c, rq.url, rq.init)
        \/ \E rq \in Requests, error \in SyncFailures :
                CallThrows(c, rq.url, rq.init, error)
        \/ \E r \in TransportResponses : TransportFulfil(c, r)
        \/ \E error \in Failures : TransportReject(c, error)
        \/ PassThrough(c)
        \/ CatchReaction(c)

Spec == Init /\ [][Next]_vars

\* The failures of the concurrent calls: a string, a string new Response
\* refuses, undefined, a plain object without a message, an Error with a
\* custom property, an Error that reaches itself.
ConcurrentFailures ==
    {Str(<<97>>),
     Str(<<10>>),
     Undefined,
     [t |-> "Plain", s |-> << >>, own |-> MkOwn("Plain", Absent, Str(<<97>>), Absent)],
     [t |-> "Error", s |-> << >>, own |-> MkOwn("Error", Str(<<97>>), Num, Absent)],
     [t |-> "Error", s |-> << >>, own |-> MkOwn("Error", Str(<<97>>), SelfRef, Absent)]}

\* The Response objects the transport of the concurrent calls resolves with
\* (two calls may get the same object).
ConcurrentResponses == {r \in TransportResponses : r.status = 200}

\* Calls through the same wrapper, in flight together: each is invoked, and
\* the transport promises settle and the reactions run in any order.
NextConcurrent ==
    \E c \in Calls :
        \/ \E url \in Urls, init \in Inits : Call(c, url, init)
        \/ \E rq \in Requests : CallThrows(c, rq.url, rq.init, Str(<<97>>))
        \/ \E r \in ConcurrentResponses : TransportFulfil(c, r)
        \/ \E error \in ConcurrentFailures : TransportReject(c, error)
        \/ PassThrough(c)
        \/ CatchReaction(c)

SpecConcurrent == Init /\ [][NextConcurrent]_vars

\* ------------------------------------------------------------------ claims

Done(c) == pc[c] = "done"

\* The transport call of c failed by rejection, with this value.
RejectedWith(c) == promise[c].reason

Failed(c) == Done(c) /\ promise[c].state = "rejected"

\* The wrapped call of c resolved, to this Response.
Resolved(c) == Done(c) /\ outcome[c].kind = "fulfilled"

\* The failure is a string, or an object whose own properties all hold JSON
\* data: a thrown string, an Error, an Error with custom properties, a plain
\* object, the DOMException of an aborted signal.
IsJSONData(v) == v.t \in {"string", "number", "null", "nested"}

OrdinaryFailure(error) ==
    \/ error.t = "string"
    \/ IsObject(error) /\ \A n \in DOMAIN error.own : IsJSONData(error.own[n])

\* C1 (as claimed): whenever the transport fails with a thrown string, an
\* Error, an Error with custom properties, a plain object or an abort, the
\* wrapped call resolves (is never rejected) to a Response whose status is
\* ERROR_STATUS, the number 10001.
C1_FailureResolvesToErrorStatus ==
    \A c \in Calls :
        (Failed(c) /\ OrdinaryFailure(RejectedWith(c)))
            => (outcome[c].kind = "fulfilled"
                    /\ outcome[c].response.status = ERROR_STATUS
                    /\ ERROR_STATUS = 10001)

\* C2: whenever the transport call resolves, the wrapped call resolves to the
\* very same Response (same identity, every field untouched): it is one the
\* transport constructed, never one the handler built.
C2_SuccessPassesThrough ==
    \A c \in Calls :
        (Done(c) /\ promise[c].state = "fulfilled")
            => (outcome[c].kind = "fulfilled"
                    /\ outcome[c].response = promise[c].response
                    /\ outcome[c].response.id.by = "transport"
                    /\ outcome[c].response \in TransportResponses)

C2_Witness ==
    \E c \in Calls :
        /\ Done(c)
        /\ promise[c].state = "fulfilled"
        /\ outcome[c].response.id = Ident("transport", 2)
        /\ outcome[c].response.status = 200

\* C3 (as claimed): a transport that throws synchronously when invoked is
\* caught like one that rejects: the wrapped call does not throw to its caller
\* and yields the synthesized Response with status 10001.
C3_SyncThrowIsCaught ==
    \A c \in Calls :
        (Done(c) /\ promise[c].state = "none")
            => (outcome[c].kind = "fulfilled"
                    /\ outcome[c].response.status = ERROR_STATUS)

\* The values C4 names: null, undefined, a number, an object whose message is
\* no string, an object whose collected record does not serialize.
NamedByC4(error) ==
    \/ error.t \in {"null", "undefined", "number"}
    \/ /\ IsObject(error)
       /\ \/ "message" \in DOMAIN error.own /\ error.own["message"].t # "string"
          \/ \E n \in DOMAIN error.own : error.own[n].t \in {"bigint", "self"}

\* C4 (as claimed): whatever value the transport rejects with (null,
\* undefined, numbers, objects whose message is no string, objects that do
\* not serialize), no exception leaves the handler: the wrapped call's
\* promise resolves.
C4_NormalizerNeverThrows ==
    \A c \in Calls :
        (Failed(c) /\ NamedByC4(RejectedWith(c))) => outcome[c].kind = "fulfilled"

\* The message a read of error.message yields when it does not throw: the own
\* property, else what the prototype supplies.
MessageField(error) ==
    IF "message" \in DOMAIN error.own THEN error.own["message"]
    ELSE IF error.t = "DOMException" THEN Str(error.s)
    ELSE IF error.t = "Error" THEN Str(<< >>)
    ELSE Undefined

\* The message field is present and non-empty.
HasMessage(error) ==
    MessageField(error).t \notin {"undefined", "null"} /\ MessageField(error) # Str(<< >>)

\* The text a message field reads as: itself when a string, "42" for the
\* number 42, "10" for the BigInt 10n.
AsText(v) ==
    CASE v.t = "string" -> v.s
      [] v.t = "number" -> <<52, 50>>
      [] v.t = "bigint" -> <<49, 48>>

\* C5: the statusText of a synthesized Response is the thrown value itself
\* when the failure is a string; otherwise the failure's message field when
\* it is present and non-empty; otherwise the literal "Unknown error". An
\* abort (DOMException) or an Error of any kind is treated like any other
\* object.
C5_StatusTextIsSummary ==
    \A c \in Calls :
        (Failed(c) /\ Resolved(c))
            => LET error == RejectedWith(c)
                   text == outcome[c].response.statusText
               IN  /\ error.t = "string" => text = error.s
                   /\ (error.t # "string" /\ HasMessage(error))
                        => text = AsText(MessageField(error))
                   /\ (error.t # "string" /\ ~HasMessage(error))
                        => text = UnknownError

C5_Witness ==
    \E c \in Calls :
        /\ Failed(c)
        /\ Resolved(c)
        /\ RejectedWith(c).t = "Error"
        /\ "message" \notin DOMAIN RejectedWith(c).own
        /\ outcome[c].response.statusText = UnknownError

\* C6: with a transport whose responses carry a status in 100..599, the status
\* of the value the wrapped call returns is ERROR_STATUS exactly when the
\* transport call failed; a synthesized Response never carries an in-range
\* status (not the placeholder 599).
C6_SentinelIffFailed ==
    \A c \in Calls :
        Resolved(c)
            => /\ (outcome[c].response.status = ERROR_STATUS)
                    <=> (promise[c].state = "rejected")
               /\ promise[c].state = "rejected"
                    => (outcome[c].response.status < 100
                            \/ outcome[c].response.status > 599)
               /\ promise[c].state = "fulfilled"
                    => (outcome[c].response.status >= 100
                            /\ outcome[c].response.status <= 599)

C6_Witness ==
    \E c \in Calls :
        /\ Resolved(c)
        /\ promise[c].state = "rejected"
        /\ outcome[c].response.status = 10001

\* C7: when the failure is a plain string s, the body of the synthesized
\* Response, parsed as JSON, is exactly the one-key record {message: s}.
C7_StringBodyIsMessage ==
    \A c \in Calls :
        (Failed(c) /\ Resolved(c) /\ RejectedWith(c).t = "string")
            => /\ outcome[c].response.body.kind = "json"
               /\ JSONparse(outcome[c].response.body)
                    = [n \in {"message"} |-> Str(RejectedWith(c).s)]

C7_Witness ==
    \E c \in Calls :
        /\ Failed(c)
        /\ Resolved(c)
        /\ RejectedWith(c) = Str(<<97>>)
        /\ DOMAIN JSONparse(outcome[c].response.body) = {"message"}

\* The parsed body of the Response the wrapped call of c resolved to.
ParsedBody(c) == JSONparse(outcome[c].response.body)

Serializable(error) ==
    \A n \in DOMAIN error.own : error.own[n].t \notin {"bigint", "self"}

SelfReferencing(error) ==
    IsObject(error) /\ \E n \in DOMAIN error.own : error.own[n] = SelfRef

\* C9 (as claimed): when the failure reaches itself through one of its
\* properties, serializing never throws to the caller: the body the handler
\* computes is the JSON text of {message: summary}, the summary being the
\* message the statusText is made of.
C9_CycleFallsBackToMessage ==
    \A c \in Calls :
        (Failed(c) /\ SelfReferencing(RejectedWith(c))
                /\ ~errorMessage(RejectedWith(c)).thrown)
            => LET summary == errorMessage(RejectedWith(c)).v
                   text == body(errorObject(RejectedWith(c)).v, summary)
               IN  /\ ~text.thrown
                   /\ JSONparse(text.v) = [n \in {"message"} |-> summary]
                   /\ Resolved(c) => outcome[c].response.body = text.v

HasHostileGetter(error) ==
    IsObject(error) /\ \E n \in DOMAIN error.own : error.own[n] = Hostile

\* A text new Response accepts as statusText.
IsStatusText(chars) == IsByteString(chars) /\ IsReasonPhrase(chars)

\* Beside its hostile getters the failure is an ordinary one: every other own
\* property holds JSON data, and a message that is a string is a status text.
OrdinaryBesideGetters(error) ==
    /\ \A n \in DOMAIN error.own :
            error.own[n] = Hostile \/ IsJSONData(error.own[n])
    /\ MessageField(error).t = "string" => IsStatusText(MessageField(error).s)

\* C11 (as claimed): when reading one own property of the failure throws, only
\* that property is omitted: the remaining own properties are still in the
\* body, and the wrapped call still resolves to the synthesized Response.
C11_HostileGetterOmitsOnlyItself ==
    \A c \in Calls :
        (Failed(c) /\ HasHostileGetter(RejectedWith(c))
                /\ OrdinaryBesideGetters(RejectedWith(c)))
            => /\ Resolved(c)
               /\ outcome[c].response.status = ERROR_STATUS
               /\ \A n \in DOMAIN RejectedWith(c).own :
                    IF RejectedWith(c).own[n] = Hostile
                    THEN n \notin DOMAIN ParsedBody(c)
                    ELSE /\ n \in DOMAIN ParsedBody(c)
                         /\ ParsedBody(c)[n] = RejectedWith(c).own[n]

C13_TransportInvokedOnce ==
    \A c \in Calls :
        /\ pc[c] = "idle"
            => (delivered[c] = << >> /\ outcome[c].kind = "none"
                    /\ promise[c].state = "none")
        /\ pc[c] # "idle"
            => (Len(delivered[c]) = 1
                    /\ delivered[c][1].url = request[c].url
                    /\ delivered[c][1].init = request[c].init)

C13_Witness ==
    \E c \in Calls :
        /\ Failed(c)
        /\ Resolved(c)
        /\ request[c] = [url |-> "https://example.com/api", init |-> "init1"]
        /\ delivered[c] = <<request[c]>>

\* C14: with calls in flight together and their transports completing in any
\* order, the result of each call is determined by its own transport outcome:
\* a success yields the call's own transport Response; a failure yields what
\* the handler makes of the call's own failure value, in a Response object
\* built for that call, which no other call returns.
C14_CallsAreIndependent ==
    \A c \in Calls :
        Done(c)
            => /\ promise[c].state = "fulfilled"
                    => outcome[c] = [NoOutcome EXCEPT !.kind = "fulfilled",
                                                     !.response = promise[c].response]
               /\ promise[c].state = "rejected"
                    => /\ outcome[c]
                            = Settled(handler(RejectedWith(c), outcome[c].response.id))
                       /\ Resolved(c)
                            => /\ outcome[c].response.id.by = "handler"
                               /\ \A d \in Calls \ {c} :
                                    outcome[d].response.id # outcome[c].response.id

C14_Witness ==
    \E c, d \in Calls :
        /\ c # d
        /\ Failed(c) /\ Resolved(c)
        /\ Failed(d) /\ Resolved(d)
        /\ RejectedWith(c) = Str(<<97>>)
        /\ RejectedWith(d).t = "Error"
        /\ outcome[c].response.id = Ident("handler", 2)
        /\ outcome[d].response.id = Ident("handler", 1)
        /\ outcome[c].response.statusText = <<97>>
        /\ DOMAIN ParsedBody(d) = {"message"}

====
